---- MODULE Spec2Model ----
(***************************************************************************)
(* A model of the lager logging library: the Verbosity enumeration, the    *)
(* handlers (stream, file, socket, syslog) and the Logger that formats an  *)
(* entry and hands it to its handlers.                                     *)
(*                                                                         *)
(* Text is a sequence of characters (one-character strings, plus the two   *)
(* symbolic characters NUL and KO for '\000' and the Hangul syllable       *)
(* U+C548); bytes are sequences of integers 0..255.                        *)
(***************************************************************************)
EXTENDS Integers, Sequences, FiniteSets, TLC

VARIABLES handlers, logger, call, ncalls, cmp

vars == <<handlers, logger, call, ncalls, cmp>>

(***************************************************************************)
(* Bounds of the model.                                                    *)
(***************************************************************************)
MaxWrites == 2
MaxCalls == 2
MaxHandlers == 2
MaxLive == 1
MaxChunk == 4

None == "None"

(***************************************************************************)
(* Characters and code points.                                             *)
(***************************************************************************)
NL == "\n"
NUL == "NUL"
KO == "U+C548"

Printable ==
    << " ", "!", "DQUOTE", "#", "$", "%", "&", "'", "(", ")", "*", "+", ",", "-",
       ".", "/", "0", "1", "2", "3", "4", "5", "6", "7", "8", "9", ":", ";",
       "<", "=", ">", "?", "@", "A", "B", "C", "D", "E", "F", "G", "H", "I",
       "J", "K", "L", "M", "N", "O", "P", "Q", "R", "S", "T", "U", "V", "W",
       "X", "Y", "Z", "[", "BSLASH", "]", "^", "_", "BQUOTE", "a", "b", "c", "d", "e",
       "f", "g", "h", "i", "j", "k", "l", "m", "n", "o", "p", "q", "r", "s",
       "t", "u", "v", "w", "x", "y", "z", "{", "|", "}", "~" >>

Ord(c) ==
    IF c = NL THEN 10
    ELSE IF c = NUL THEN 0
    ELSE IF c = KO THEN 50504
    ELSE 31 + (CHOOSE i \in 1..Len(Printable) : Printable[i] = c)

Chr(n) ==
    IF n = 10 THEN NL
    ELSE IF n = 0 THEN NUL
    ELSE IF n = 50504 THEN KO
    ELSE Printable[n - 31]

Digits == << "0", "1", "2", "3", "4", "5", "6", "7", "8", "9" >>

RECURSIVE Decimal(_)
Decimal(n) ==
    IF n < 10 THEN << Digits[n + 1] >>
    ELSE Decimal(n \div 10) \o << Digits[(n % 10) + 1] >>

EndsWith(text, c) == Len(text) > 0 /\ text[Len(text)] = c

(***************************************************************************)
(* Codecs, strict error policy: bytes(text, encoding) and                  *)
(* bytes.decode(encoding).  Encodable tells whether bytes(text, encoding)  *)
(* returns; when it does not, UnicodeEncodeError is raised.                *)
(***************************************************************************)
Encodings == { "utf8", "ascii" }

Encodable(encoding, text) ==
    \A i \in 1..Len(text) : encoding = "ascii" => Ord(text[i]) < 128

EncodeChar(c) ==
    LET cp == Ord(c) IN
    IF cp < 128 THEN << cp >>
    ELSE IF cp < 2048 THEN << 192 + (cp \div 64), 128 + (cp % 64) >>
    ELSE << 224 + (cp \div 4096), 128 + ((cp \div 64) % 64), 128 + (cp % 64) >>

RECURSIVE Encode(_, _)
Encode(encoding, text) ==
    IF text = << >> THEN << >>
    ELSE EncodeChar(Head(text)) \o Encode(encoding, Tail(text))

RECURSIVE Decode(_, _)
Decode(encoding, bytes) ==
    IF bytes = << >> THEN << >>
    ELSE LET b == Head(bytes) IN
         IF b < 128 THEN << Chr(b) >> \o Decode(encoding, Tail(bytes))
         ELSE IF b >= 224 THEN
             LET cp == (b - 224) * 4096 + (bytes[2] - 128) * 64 + (bytes[3] - 128)
             IN  << Chr(cp) >> \o Decode(encoding, SubSeq(bytes, 4, Len(bytes)))
         ELSE
             LET cp == (b - 192) * 64 + (bytes[2] - 128)
             IN  << Chr(cp) >> \o Decode(encoding, SubSeq(bytes, 3, Len(bytes)))

(***************************************************************************)
(* Verbosity (lager/enums.py).                                             *)
(***************************************************************************)
Verbosity == { "debug", "info", "warning", "error", "exception" }

\* Verbosity of lager/verbosity.py, an IntEnum of four members, under the
\* module-level names the package gives them.  lager/__init__.py exports
\* this class and builds the default logger with it, while handlers.py
\* and loggers.py use the Enum of lager/enums.py.
DEBUG == "DEBUG"
INFO == "INFO"
WARNING == "WARNING"
ERROR == "ERROR"

IntEnumVerbosity == { DEBUG, INFO, WARNING, ERROR }

\* Every severity member the package ships.
Shipped == Verbosity \cup IntEnumVerbosity

Value(v) ==
    CASE v = "debug" -> 0
      [] v = "info" -> 1
      [] v = "warning" -> 2
      [] v = "error" -> 3
      [] v = "exception" -> 4
      [] v = DEBUG -> 0
      [] v = INFO -> 1
      [] v = WARNING -> 2
      [] v = ERROR -> 3

Str(v) ==
    CASE v = "debug" -> << "D", "E", "B", "U", "G" >>
      [] v = "info" -> << "I", "N", "F", "O" >>
      [] v = "warning" -> << "W", "A", "R", "N", "I", "N", "G" >>
      [] v = "error" -> << "E", "R", "R", "O", "R" >>
      [] v = "exception" -> << "E", "X", "C", "E", "P", "T", "I", "O", "N" >>

\* lt as if written with <=.
lt_or_equal(a, b) == Value(a) <= Value(b)

lt(a, b) == Value(a) < Value(b)

\* le as if written with <.
le_strict(a, b) == Value(a) < Value(b)

le(a, b) == Value(a) <= Value(b)
eq(a, b) == Value(a) = Value(b)
ge(a, b) == Value(a) >= Value(b)
gt(a, b) == Value(a) > Value(b)

LOG_ERR == 3
LOG_WARNING == 4
LOG_INFO == 6
LOG_DEBUG == 7
LOG_USER == 8

as_syslog(v) ==
    IF eq(v, "debug") THEN LOG_DEBUG
    ELSE IF eq(v, "info") THEN LOG_INFO
    ELSE IF eq(v, "warning") THEN LOG_WARNING
    ELSE LOG_ERR

\* The truth value of a threshold argument: None is false, a member of the
\* Enum is true (object truth), a member of the IntEnum has the truth of
\* its integer value.
bool(verbosity) ==
    IF verbosity = None THEN FALSE
    ELSE IF verbosity \in IntEnumVerbosity THEN Value(verbosity) # 0
    ELSE TRUE

\* `verbosity or Verbosity.info` taking the argument whenever one is passed.
OrInfo_if_none(verbosity) == IF verbosity = None THEN "info" ELSE verbosity

\* `verbosity or Verbosity.info`: the argument when it is true, else the
\* info member of the Enum of lager/enums.py.
OrInfo(verbosity) == IF bool(verbosity) THEN verbosity ELSE "info"

(***************************************************************************)
(* Handlers (lager/handlers.py).  A handler is a record; its destination   *)
(* resource is a field of the record:                                      *)
(*   stream : the units written to the stream object, `buffer` those not   *)
(*            yet flushed and `out` those flushed, and the name of the     *)
(*            stream object;                                               *)
(*   fh     : a codecs file, `buffer` the encoded units not yet flushed    *)
(*            and `disk` the units in the file;                            *)
(*   socket : `sent`, the payloads handed to sendall.                      *)
(* Each resource also carries `calls`, the number of write or sendall      *)
(* calls it received, and `fault`, the operation that the resource fails   *)
(* from now on (None while it works): "write" on a closed stream, "write"  *)
(* or "flush" on a file whose disk is full, "sendall" on a socket whose    *)
(* peer is gone.                                                           *)
(***************************************************************************)
NewStream ==
    [name |-> "stream", buffer |-> << >>, out |-> << >>, calls |-> 0,
     fault |-> None]
\* sys.stderr and sys.stdout, the streams of the preconfigured handlers.
stderr == [NewStream EXCEPT !.name = "stderr"]
stdout == [NewStream EXCEPT !.name = "stdout"]
NewFile ==
    [buffer |-> << >>, disk |-> << >>, calls |-> 0, fault |-> None,
     mode |-> "a", closed |-> FALSE]

\* The classes that derive from SocketHandler.
SocketHandlers ==
    { "SocketHandler", "TcpHandler", "TcpIPv6Handler", "UdpHandler",
      "UdpIPv6Handler", "UnixSocketHandler", "SyslogHandler" }

AF_UNIX == "AF_UNIX"
AF_INET == "AF_INET"
AF_INET6 == "AF_INET6"
SOCK_STREAM == "SOCK_STREAM"
SOCK_DGRAM == "SOCK_DGRAM"

\* An address: the tuple (host, port) or the bare host.
Pair(host, port) == [host |-> host, port |-> port]
Bare(host) == [host |-> host]
IsPair(address) == "port" \in DOMAIN address

\* socket.socket(family, type): an open, unconnected socket.
socket(family, type) ==
    [family |-> family, type |-> type, peer |-> Bare(None), sent |-> << >>,
     calls |-> 0, fault |-> None, closed |-> FALSE]

\* The port argument: None or an int.
PyNone == [type |-> "NoneType"]
PyInt(n) == [type |-> "int", val |-> n]
IsNone(value) == value.type = "NoneType"
\* bool(port)
Truthy(value) == value.type = "int" /\ value.val # 0

(***************************************************************************)
(* The network as the constructors see it.  net.listening: the address     *)
(* families on which the peer accepts stream connections; net.nodes: the   *)
(* UNIX socket nodes that exist.  Resolve: the families of the addresses   *)
(* getaddrinfo returns for a host, in order.                               *)
(***************************************************************************)
Localhost == "localhost"
IPv4Literal == "127.0.0.1"
IPv6Literal == "::1"
DevLog == "/dev/log"
NoNode == "/nonexistent"

Resolve(host) ==
    CASE host = Localhost -> << AF_INET6, AF_INET >>
      [] host = IPv4Literal -> << AF_INET >>
      [] host = IPv6Literal -> << AF_INET6 >>
      [] OTHER -> << >>

Families(host) == { Resolve(host)[i] : i \in 1..Len(Resolve(host)) }

\* socket.create_connection((host, port)): getaddrinfo, then a stream socket
\* of the family of the first address that accepts the connection; the
\* sockets of the addresses that refuse are closed before the next try.
\* Nothing listens on port 0.
create_connection(address, net) ==
    LET families == Resolve(address.host)
        accepting == { i \in 1..Len(families) :
                         families[i] \in net.listening /\ address.port.val # 0 }
    IN  IF families = << >> THEN [exc |-> "gaierror", sock |-> << >>]
        ELSE IF accepting = {} THEN [exc |-> "OSError", sock |-> << >>]
        ELSE LET first == CHOOSE i \in accepting : \A j \in accepting : i <= j
             IN  [exc |-> None,
                  sock |-> << [socket(families[first], SOCK_STREAM)
                                 EXCEPT !.peer = address] >>]

\* sock.connect(address)
connect(sock, address, net) ==
    LET connected == [exc |-> None, sock |-> [sock EXCEPT !.peer = address]]
        failed(e) == [exc |-> e, sock |-> sock]
    IN  IF sock.family = AF_UNIX
        THEN IF IsPair(address) \/ address.host = None THEN failed("TypeError")
             ELSE IF address.host \in net.nodes THEN connected
             ELSE failed("FileNotFoundError")
        ELSE IF ~IsPair(address) THEN failed("TypeError")
             ELSE IF sock.family \notin Families(address.host)
                  THEN failed("gaierror")
             ELSE IF sock.type = SOCK_STREAM /\ sock.family \notin net.listening
                  THEN failed("OSError")
             ELSE connected


NoArgs == [k \in {} |-> None]

\* Constructor arguments are a record of the keyword arguments passed;
\* an argument left out takes the default of the signature.
Arg(kwargs, key, default) ==
    IF key \in DOMAIN kwargs THEN kwargs[key] ELSE default

StreamHandler(kwargs) ==
    [cls |-> "StreamHandler", stream |-> Arg(kwargs, "stream", NewStream),
     verbosity |-> OrInfo(Arg(kwargs, "verbosity", None)),
     kwargs |-> kwargs]

\* The result of a method: the handler afterwards and the exception raised.
Returned(h) == [handler |-> h, exc |-> None]
Raised(h, e) == [handler |-> h, exc |-> e]

\* The result of a constructor: the object (without its resource attribute
\* when the constructor raised before assigning it), the exception, and
\* the resources that are open but are no attribute of the object when the
\* constructor returns or raises.
Constructed(h) == [handler |-> h, exc |-> None, unowned |-> << >>]
Failed(h, e, unowned) == [handler |-> h, exc |-> e, unowned |-> unowned]

\* codecs.open(filename, mode, encoding, errors, buffering).  fs is the
\* place the file name points at: fs.dir, its directory exists; fs.content,
\* the units the file holds (none when there is no such file).  Mode 'a'
\* keeps them, mode 'w' truncates.
codecs_open(fs, mode) ==
    IF ~fs.dir THEN [exc |-> "FileNotFoundError", fh |-> << >>]
    ELSE [exc |-> None,
          fh |-> << [NewFile EXCEPT !.mode = mode,
                       !.disk = IF mode = "a" THEN fs.content ELSE << >>] >>]

FileHandler_init(kwargs, fs) ==
    LET self == [cls |-> "FileHandler", kwargs |-> kwargs]
        opened == codecs_open(fs, Arg(kwargs, "mode", "a"))
    IN  IF opened.exc # None THEN Failed(self, opened.exc, << >>)
        ELSE Constructed([fh |-> opened.fh[1],
                          verbosity |-> OrInfo(Arg(kwargs, "verbosity", None)),
                          encoding |-> Arg(kwargs, "encoding", "utf8")]
                           @@ self)

\* A directory that exists, without the file.
NewPath == [dir |-> TRUE, content |-> << >>]

\* The handler as constructed on a new file.
FileHandler(kwargs) == FileHandler_init(kwargs, NewPath).handler

\* FileHandler.__del__: self.fh.close(), which flushes.
FileHandler_del(h) ==
    IF "fh" \notin DOMAIN h THEN Raised(h, "AttributeError")
    ELSE IF h.fh.buffer # << >> /\ h.fh.fault = "flush"
         THEN Raised(h, "OSError")
    ELSE Returned([h EXCEPT !.fh.disk = @ \o h.fh.buffer,
                            !.fh.buffer = << >>, !.fh.closed = TRUE])

\* SocketHandler.__del__: self.socket.close()
SocketHandler_del(h) ==
    IF "socket" \notin DOMAIN h THEN Raised(h, "AttributeError")
    ELSE Returned([h EXCEPT !.socket.closed = TRUE])

\* SocketHandler.__init__(self, verbosity, **kwargs); `self` is the object
\* as the subclass constructor left it, `kwargs` the arguments received.
\* The result also tells the address given to create_connection or connect.
SocketHandler_init(self, kwargs, net) ==
    LET attrs == [verbosity |-> OrInfo(Arg(kwargs, "verbosity", None)),
                  host |-> Arg(kwargs, "host", None),
                  port |-> Arg(kwargs, "port", PyNone),
                  encoding |-> Arg(kwargs, "encoding", "utf8"),
                  family |-> Arg(kwargs, "family", None),
                  type |-> Arg(kwargs, "type", None)]
        obj == attrs @@ self
    IN  IF ~IsNone(obj.port) /\ obj.type # SOCK_DGRAM
        THEN LET made == create_connection(Pair(obj.host, obj.port), net)
             IN  [address |-> Pair(obj.host, obj.port)]
                   @@ IF made.exc # None THEN Failed(obj, made.exc, << >>)
                      ELSE Constructed([socket |-> made.sock[1]] @@ obj)
        ELSE LET address == IF Truthy(obj.port) THEN Pair(obj.host, obj.port)
                            ELSE Bare(obj.host)
                 both == obj.family # None /\ obj.type # None
                 family == IF both THEN obj.family ELSE AF_UNIX
                 type == IF obj.type # None THEN obj.type ELSE SOCK_DGRAM
                 sock == socket(family, type)
                 set == [obj EXCEPT !.family = family, !.type = type]
                 made == connect(sock, address, net)
             IN  [address |-> address]
                   @@ IF made.exc # None THEN Failed(set, made.exc, << sock >>)
                      ELSE Constructed([socket |-> made.sock] @@ set)

\* The preconfigured subclasses: each passes its own family and type.
Preset(cls, kwargs, family, type, net) ==
    SocketHandler_init(
        [cls |-> cls, kwargs |-> kwargs],
        [verbosity |-> Arg(kwargs, "verbosity", None),
         host |-> kwargs["host"], port |-> kwargs["port"],
         family |-> family, type |-> type,
         encoding |-> Arg(kwargs, "encoding", "utf8")],
        net)

TcpHandler_init(kwargs, net) ==
    Preset("TcpHandler", kwargs, AF_INET, SOCK_STREAM, net)

TcpIPv6Handler_init(kwargs, net) ==
    Preset("TcpIPv6Handler", kwargs, AF_INET6, SOCK_STREAM, net)

UdpHandler_init(kwargs, net) ==
    Preset("UdpHandler", kwargs, AF_INET, SOCK_DGRAM, net)

UdpIPv6Handler_init(kwargs, net) ==
    Preset("UdpIPv6Handler", kwargs, AF_INET6, SOCK_DGRAM, net)

UnixSocketHandler_init(kwargs, net) ==
    SocketHandler_init(
        [cls |-> "UnixSocketHandler", kwargs |-> kwargs],
        [verbosity |-> Arg(kwargs, "verbosity", None), host |-> kwargs["node"],
         family |-> AF_UNIX, type |-> SOCK_DGRAM,
         encoding |-> Arg(kwargs, "encoding", "utf8")],
        net)

SyslogHandler_init(kwargs, net) ==
    SocketHandler_init(
        [cls |-> "SyslogHandler", kwargs |-> kwargs,
         facility |-> Arg(kwargs, "facility", LOG_USER)],
        [verbosity |-> Arg(kwargs, "verbosity", None),
         host |-> Arg(kwargs, "host", Localhost),
         port |-> Arg(kwargs, "port", PyInt(514)),
         family |-> AF_INET, type |-> SOCK_DGRAM,
         encoding |-> Arg(kwargs, "encoding", "utf8")],
        net)

\* A network in which every peer is there.
Reachable == [listening |-> { AF_INET, AF_INET6 }, nodes |-> { DevLog }]

\* The handlers as constructed in that network.
SocketHandler(kwargs) ==
    SocketHandler_init([cls |-> "SocketHandler", kwargs |-> kwargs], kwargs,
                       Reachable).handler

SyslogHandler(kwargs) == SyslogHandler_init(kwargs, Reachable).handler

\* self.socket.sendall(bytes): OSError when the peer is gone.
\* One send of the loop inside sendall: the kernel takes a chunk.
send(h, chunk) == [h EXCEPT !.socket.sent = Append(@, chunk)]

\* Called by one thread at a time, sendall hands over the whole payload.
sendall(h, bytes) ==
    LET called == [h EXCEPT !.socket.calls = @ + 1] IN
    IF h.socket.fault = "sendall" THEN Raised(called, "OSError")
    ELSE Returned(send(called, bytes))

\* self.fh.write(text): the encoded text goes to the buffer of the file.
fh_write(h, text) ==
    LET called == [h EXCEPT !.fh.calls = @ + 1] IN
    IF h.fh.fault = "write" THEN Raised(called, "OSError")
    ELSE Returned([called EXCEPT !.fh.buffer =
                     Append(@, Encode(h.encoding, text))])

\* A flush that leaves the buffer as it is.
fh_flush_lazy(h) == Returned(h)

\* self.fh.flush(): what the buffer holds goes to the file.
fh_flush(h) ==
    IF h.fh.fault = "flush" THEN Raised(h, "OSError")
    ELSE Returned([h EXCEPT !.fh.disk = @ \o h.fh.buffer,
                            !.fh.buffer = << >>])

\* stream.write raises ValueError on a closed stream.
StreamHandler_write_entry(h, entry, verbosity) ==
    IF le(h.verbosity, verbosity)
    THEN LET called == [h EXCEPT !.stream.calls = @ + 1] IN
         IF h.stream.fault = "write" THEN Raised(called, "ValueError")
         ELSE Returned([called EXCEPT !.stream.buffer = Append(@, entry)])
    ELSE Returned(h)

FileHandler_write_entry(h, entry, verbosity) ==
    IF le(h.verbosity, verbosity)
    THEN LET bytes == Encode(h.encoding, entry) IN
         IF ~Encodable(h.encoding, entry) THEN Raised(h, "UnicodeEncodeError")
         ELSE LET written == fh_write(h, Decode(h.encoding, bytes))
              IN  IF written.exc # None THEN written
                  ELSE fh_flush(written.handler)
    ELSE Returned(h)

SocketHandler_write_entry(h, entry, verbosity) ==
    IF le(h.verbosity, verbosity)
    THEN LET bytes == Encode(h.encoding, entry) IN
         IF ~Encodable(h.encoding, entry) THEN Raised(h, "UnicodeEncodeError")
         ELSE sendall(h, bytes)
    ELSE Returned(h)

\* _get_priority without the shift of the facility.
get_priority_unshifted(h, verbosity) == h.facility + as_syslog(verbosity)

get_priority(h, verbosity) == (h.facility * 8) + as_syslog(verbosity)

SyslogHandler_write_entry(h, entry, verbosity) ==
    IF le(h.verbosity, verbosity)
    THEN LET priority == get_priority(h, verbosity)
             framed == << "<" >> \o Decimal(priority) \o << ">" >> \o entry
                         \o << NUL >>
             bytes == Encode(h.encoding, framed)
         IN  IF ~Encodable(h.encoding, framed)
             THEN Raised(h, "UnicodeEncodeError")
             ELSE sendall(h, bytes)
    ELSE Returned(h)

\* Dynamic dispatch of handler.write_entry(entry, verbosity).
write_entry(h, entry, verbosity) ==
    CASE h.cls = "StreamHandler" -> StreamHandler_write_entry(h, entry, verbosity)
      [] h.cls = "FileHandler" -> FileHandler_write_entry(h, entry, verbosity)
      [] h.cls \in SocketHandlers \ { "SyslogHandler" } ->
           SocketHandler_write_entry(h, entry, verbosity)
      [] h.cls = "SyslogHandler" -> SyslogHandler_write_entry(h, entry, verbosity)

\* What the destination of a handler holds: the units the stream object
\* received, the units in the file, the payloads sent on the socket.
Destination(h) ==
    CASE h.cls = "StreamHandler" -> h.stream.out \o h.stream.buffer
      [] h.cls = "FileHandler" -> h.fh.disk
      [] h.cls \in SocketHandlers -> h.socket.sent

(***************************************************************************)
(* Values and templates (lager/loggers.py).  A value carries its type, and *)
(* str.format renders it by type.  A template is a sequence of tokens: a   *)
(* literal character or a replacement field {key}.                         *)
(***************************************************************************)
S(text) == [type |-> "str", val |-> text]
I(n) == [type |-> "int", val |-> n]
V(v) == [type |-> "Verbosity", val |-> v]
Arrow(iso) == [type |-> "Arrow", val |-> iso]
Fn(result) == [type |-> "function", returns |-> result]

callable(value) == value.type = "function"

FunctionRepr == << "<", "f", "u", "n", "c", "t", "i", "o", "n", ">" >>

\* format(value, '')
Rendered(value) ==
    CASE value.type = "str" -> value.val
      [] value.type = "int" -> Decimal(value.val)
      [] value.type = "Verbosity" -> Str(value.val)
      [] value.type = "Arrow" -> value.val
      [] value.type = "function" -> FunctionRepr

L(c) == [lit |-> c]
F(key) == [field |-> key]
IsField(token) == "field" \in DOMAIN token

Fields(template) ==
    { template[i].field : i \in { j \in 1..Len(template) : IsField(template[j]) } }

RECURSIVE Interpolate(_, _)
Interpolate(template, kwargs) ==
    IF template = << >> THEN << >>
    ELSE LET token == Head(template)
             text == IF IsField(token) THEN Rendered(kwargs[token.field])
                     ELSE << token.lit >>
         IN  text \o Interpolate(Tail(template), kwargs)

\* format that drops a field without a keyword instead of failing.
format_dropping(template, kwargs) ==
    [exc |-> None,
     text |-> Interpolate(SelectSeq(template,
                                    LAMBDA token : IsField(token) =>
                                                     token.field \in DOMAIN kwargs),
                          kwargs)]

\* template.format(**kwargs): KeyError when a field has no keyword.
format(template, kwargs) ==
    IF Fields(template) \subseteq DOMAIN kwargs
    THEN [exc |-> None, text |-> Interpolate(template, kwargs)]
    ELSE [exc |-> "KeyError", text |-> << >>]

BASE_TEMPLATE_KEYS ==
    { "name", "time", "verbosity", "message", "source", "function", "line",
      "module", "pid" }

DEFAULT_TEMPLATE ==
    << F("time"), L(" "), F("verbosity"), L(" "), F("name"), L(":"), L(" "),
       F("message") >>

\* inspect.getmodulename: the base name of the path without its .py suffix.
RECURSIVE Basename(_)
Basename(path) ==
    IF \E i \in 1..Len(path) : path[i] = "/"
    THEN Basename(Tail(path))
    ELSE path

getmodulename(path) ==
    LET base == Basename(path)
        n == Len(base)
    IN  IF n > 3 /\ SubSeq(base, n - 2, n) = << ".", "p", "y" >>
        THEN S(SubSeq(base, 1, n - 3))
        ELSE S(<< "N", "o", "n", "e" >>)

\* The Logger object; its handler list is the variable `handlers`.
Logger(kwargs) ==
    [name |-> kwargs["name"],
     template |-> IF Arg(kwargs, "template", << >>) = << >>
                  THEN DEFAULT_TEMPLATE ELSE kwargs["template"],
     timezone |-> Arg(kwargs, "timezone", None),
     ensure_new_line |-> Arg(kwargs, "ensure_new_line", TRUE),
     passed |-> DOMAIN kwargs]

StdOutHandler(kwargs) == StreamHandler(("stream" :> stdout) @@ kwargs)

StdErrHandler(kwargs) == StreamHandler(("stream" :> stderr) @@ kwargs)

\* handlers or [StdOutHandler()]
LoggerHandlers(kwargs) ==
    IF Arg(kwargs, "handlers", << >>) = << >>
    THEN << StdOutHandler(NoArgs) >> ELSE kwargs["handlers"]

\* frame: the caller's frame, [fname, line, func]; now: arrow.utcnow().
get_kwargs(self, now, frame, pid) ==
    LET func == IF frame.func = << "<", "m", "o", "d", "u", "l", "e", ">" >>
                THEN << "_", "_", "m", "a", "i", "n", "_", "_" >>
                ELSE frame.func
    IN  [name |-> S(self.name),
         time |-> Arrow(now),
         source |-> S(frame.fname),
         function |-> S(func),
         line |-> I(frame.line),
         module |-> getmodulename(frame.fname),
         pid |-> I(pid)]

\* The comprehension without the call: the callable itself is the value.
RunContext_uncalled(context) ==
    [values |-> context, invoked |-> [key \in DOMAIN context |-> 0]]

\* {key: value() if callable(value) else value for key, value in ...}:
\* the resolved values and how many times each value was called.
RunContext(context) ==
    [values |-> [key \in DOMAIN context |->
                   IF callable(context[key]) THEN context[key].returns
                   ELSE context[key]],
     invoked |-> [key \in DOMAIN context |->
                   IF callable(context[key]) THEN 1 ELSE 0]]

\* dict.update: the keys of `other` replace those of `base`.
Update(base, other) == other @@ base

\* for handler in self.handlers: handler.write_entry(...); an exception
\* leaves the loop.
\* The loop with the call wrapped in try/except: a failing handler is
\* skipped.
RECURSIVE Dispatch_swallowing(_, _, _, _)
Dispatch_swallowing(hs, i, entry, verbosity) ==
    IF i > Len(hs) THEN [handlers |-> hs, exc |-> None]
    ELSE LET result == write_entry(hs[i], entry, verbosity)
         IN  Dispatch_swallowing([hs EXCEPT ![i] = result.handler], i + 1,
                                 entry, verbosity)

\* The loop over reversed(self.handlers): the last handler is invoked
\* first.
RECURSIVE Dispatch_reversed(_, _, _, _)
Dispatch_reversed(hs, i, entry, verbosity) ==
    IF i > Len(hs) THEN [handlers |-> hs, exc |-> None]
    ELSE LET k == Len(hs) + 1 - i
             result == write_entry(hs[k], entry, verbosity)
             written == [hs EXCEPT ![k] = result.handler]
         IN  IF result.exc # None
             THEN [handlers |-> written, exc |-> result.exc]
             ELSE Dispatch_reversed(written, i + 1, entry, verbosity)

\* The loop leaving after the first handler.
Dispatch_first(hs, i, entry, verbosity) ==
    LET result == write_entry(hs[1], entry, verbosity)
    IN  [handlers |-> [hs EXCEPT ![1] = result.handler], exc |-> result.exc]

RECURSIVE Dispatch(_, _, _, _)
Dispatch(hs, i, entry, verbosity) ==
    IF i > Len(hs) THEN [handlers |-> hs, exc |-> None]
    ELSE LET result == write_entry(hs[i], entry, verbosity)
             written == [hs EXCEPT ![i] = result.handler]
         IN  IF result.exc # None
             THEN [handlers |-> written, exc |-> result.exc]
             ELSE Dispatch(written, i + 1, entry, verbosity)

NotInvoked(context) == [key \in DOMAIN context |-> 0]

\* The tail of _log appending a newline whatever the text ends with.
Finish_appending(self, hs, verbosity, formatted, invoked) ==
    IF formatted.exc # None
    THEN [handlers |-> hs, exc |-> formatted.exc, entry |-> << >>,
          interpolated |-> << >>, invoked |-> invoked]
    ELSE LET entry == IF self.ensure_new_line
                      THEN formatted.text \o << NL >>
                      ELSE formatted.text
         IN  [entry |-> entry, interpolated |-> formatted.text,
              invoked |-> invoked]
               @@ Dispatch(hs, 1, entry, verbosity)

\* The tail of _log once the template is interpolated: the newline policy
\* and the loop over the handlers.
Finish(self, hs, verbosity, formatted, invoked) ==
    IF formatted.exc # None
    THEN [handlers |-> hs, exc |-> formatted.exc, entry |-> << >>,
          interpolated |-> << >>, invoked |-> invoked]
    ELSE LET entry == IF self.ensure_new_line /\ ~EndsWith(formatted.text, NL)
                      THEN formatted.text \o << NL >>
                      ELSE formatted.text
         IN  [entry |-> entry, interpolated |-> formatted.text,
              invoked |-> invoked]
               @@ Dispatch(hs, 1, entry, verbosity)

\* Logger._log(verbosity, message, err, **context); env holds what the body
\* reads from outside: the clock, the caller's frame, the pid, the traceback.
log(self, hs, verbosity, message, err, context, env) ==
    LET msg == IF err THEN env.traceback ELSE message
        std == Update(get_kwargs(self, env.now, env.frame, env.pid),
                      [verbosity |-> V(verbosity), message |-> S(msg)])
        run == RunContext(context)
        kwargs == Update(std, run.values)
    IN  Finish(self, hs, verbosity, format(self.template, kwargs), run.invoked)

\* Binding of a call's keyword arguments to a signature with **context: a
\* keyword that names a parameter already bound is a TypeError.
Collides(params, context) == (DOMAIN context) \cap params # {}

Unbound(hs, context) ==
    [handlers |-> hs, exc |-> "TypeError", entry |-> << >>,
     interpolated |-> << >>, invoked |-> NotInvoked(context)]

VerbosityOf(method) ==
    CASE method = "debug" -> "debug"
      [] method = "info" -> "info"
      [] method = "warning" -> "warning"
      [] method = "error" -> "error"
      [] method = "capture_exception" -> "exception"

Methods == { "debug", "info", "warning", "error", "capture_exception" }

\* capture_exception logging at Verbosity.error.
LoggerCall_as_error(self, hs, method, message, context, env) ==
    IF Collides({ "self", "verbosity", "message", "err" }, context)
    THEN Unbound(hs, context)
    ELSE log(self, hs, IF method = "capture_exception" THEN "error"
                       ELSE VerbosityOf(method),
             message, method = "capture_exception", context, env)

\* Logger.debug / info / warning / error (message, **context) and
\* Logger.capture_exception(**context).
LoggerCall(self, hs, method, message, context, env) ==
    IF method = "capture_exception"
    THEN IF Collides({ "self" }, context)
            \/ Collides({ "self", "verbosity", "message", "err" }, context)
         THEN Unbound(hs, context)
         ELSE log(self, hs, "exception", << >>, TRUE, context, env)
    ELSE IF Collides({ "self", "message" }, context)
            \/ Collides({ "self", "verbosity", "message", "err" }, context)
         THEN Unbound(hs, context)
         ELSE log(self, hs, VerbosityOf(method), message, FALSE, context, env)

(***************************************************************************)
(* Inputs.                                                                 *)
(***************************************************************************)
\* The ways of passing, or leaving out, one keyword argument.
Opt(key, values) == { NoArgs } \cup { key :> v : v \in values }

Both(A, B) == { a @@ b : a \in A, b \in B }

\* Syslog facilities passed explicitly: the lowest PRI-field code after
\* kern and the highest one.
Facilities == { 1, 23 }

\* Entries handed to write_entry directly: empty, ASCII, non-ASCII,
\* newline-terminated.
Entries == { << >>, << "h", "i" >>, << KO, NL >> }

\* One handler of each class, as constructed with and without the keyword
\* arguments that its write_entry reads.
HandlerConfigs ==
    { StreamHandler(NoArgs) }
    \cup { FileHandler(kw) : kw \in Opt("encoding", { "ascii" }) }
    \cup { SocketHandler("host" :> DevLog) }
    \cup { SyslogHandler(kw) : kw \in Opt("facility", Facilities) }

NoCall == [op |-> None]
NoLogger == [name |-> None]
NoCmp == [a |-> None]

(***************************************************************************)
(* SpecHandler: one handler of any class, driven directly through          *)
(* write_entry, its threshold reassigned at will (handler.verbosity = v).  *)
(***************************************************************************)
InitHandler ==
    /\ handlers \in { << h >> : h \in HandlerConfigs }
    /\ logger = NoLogger
    /\ call = NoCall
    /\ ncalls = 0
    /\ cmp = NoCmp

WriteEntry ==
    /\ Len(Destination(handlers[1])) < MaxWrites
    /\ \E entry \in Entries, verbosity \in Verbosity :
         \E result \in { write_entry(handlers[1], entry, verbosity) } :
         /\ handlers' = << result.handler >>
         /\ call' = [op |-> "write_entry", entry |-> entry,
                     verbosity |-> verbosity, exc |-> result.exc,
                     before |-> handlers]
    /\ UNCHANGED << logger, ncalls, cmp >>

SetVerbosity ==
    /\ \E verbosity \in Verbosity :
         /\ verbosity # handlers[1].verbosity
         /\ handlers' = [handlers EXCEPT ![1].verbosity = verbosity]
    /\ UNCHANGED << logger, call, ncalls, cmp >>

NextHandler == WriteEntry \/ SetVerbosity

SpecHandler == InitHandler /\ [][NextHandler]_vars

(***************************************************************************)
(* Properties of write_entry.                                              *)
(***************************************************************************)
\* The handler the last write_entry call was made on, as it was at the call.
Before == call.before[1]
After == handlers[1]
Wrote == call.op = "write_entry" /\ call.exc = None

\* The text a destination unit carries.
TextOf(h, unit) ==
    IF h.cls = "StreamHandler" THEN unit ELSE Decode(h.encoding, unit)

Extends(before, after) ==
    /\ Len(after) = Len(before) + 1
    /\ SubSeq(after, 1, Len(before)) = before

\* C1: a write_entry call that returns leaves the destination unchanged if
\* and only if the verbosity is below the threshold in force at the call;
\* otherwise the destination gains exactly one unit, and for the handlers
\* other than syslog that unit carries exactly the text of the entry.
C1_ThresholdFilter ==
    Wrote =>
      LET d0 == Destination(Before)
          d1 == Destination(After)
          below == Value(call.verbosity) < Value(Before.verbosity)
      IN  /\ (d1 = d0) <=> below
          /\ ~below => /\ Extends(d0, d1)
                       /\ Before.cls # "SyslogHandler" =>
                            TextOf(Before, d1[Len(d1)]) = call.entry

\* A call was dropped by a handler whose destination holds an earlier,
\* admitted, non-ASCII entry.
C1_Witness ==
    /\ Wrote
    /\ Value(call.verbosity) < Value(Before.verbosity)
    /\ Before.cls = "FileHandler"
    /\ Len(Destination(After)) = 1
    /\ TextOf(Before, Destination(After)[1]) = << KO, NL >>

(***************************************************************************)
(* Syslog framing.                                                         *)
(***************************************************************************)
\* The syslog severity of a verbosity, as the PRI-field convention numbers
\* them.
SyslogSeverity(v) ==
    CASE v = "debug" -> 7
      [] v = "info" -> 6
      [] v = "warning" -> 4
      [] v = "error" -> 3
      [] v = "exception" -> 3

DigitValue(c) == (CHOOSE i \in 1..10 : Digits[i] = c) - 1

RECURSIVE ParseDecimal(_)
ParseDecimal(text) ==
    IF text = << >> THEN 0
    ELSE 10 * ParseDecimal(SubSeq(text, 1, Len(text) - 1))
           + DigitValue(text[Len(text)])

\* The PRI value of a payload: the decimal number between its leading '<'
\* and the first '>'.
PriOf(encoding, payload) ==
    LET text == Decode(encoding, payload)
        close == CHOOSE i \in 1..Len(text) :
                    text[i] = ">" /\ \A j \in 1..(i - 1) : text[j] # ">"
    IN  ParseDecimal(SubSeq(text, 2, close - 1))

SyslogAdmitted ==
    /\ Wrote
    /\ Before.cls = "SyslogHandler"
    /\ Value(call.verbosity) >= Value(Before.verbosity)

\* C8: an admitted SyslogHandler.write_entry sends exactly one payload,
\* '<' + decimal(F*8 + s(V)) + '>' + entry + NUL in the configured encoding.
C8_SyslogFrame ==
    SyslogAdmitted =>
      Destination(After) =
        Append(Destination(Before),
               Encode(Before.encoding,
                      << "<" >>
                        \o Decimal(Before.facility * 8 + SyslogSeverity(call.verbosity))
                        \o << ">" >> \o call.entry \o << NUL >>))

\* An exception entry with non-ASCII text was framed for facility 23.
C8_Witness ==
    /\ SyslogAdmitted
    /\ Before.facility = 23
    /\ call.verbosity = "exception"
    /\ call.entry = << KO, NL >>
    /\ Len(Destination(After)) = 1

\* C9: a SyslogHandler constructed without a facility emits PRI = 1*8 +
\* severity (15, 14, 12, 11), so that PRI div 8 = 1 and PRI is in 0..191.
C9_DefaultFacilityIsUser ==
    (SyslogAdmitted /\ "facility" \notin DOMAIN Before.kwargs) =>
      LET sent == Destination(After)
          pri == PriOf(Before.encoding, sent[Len(sent)])
      IN  /\ pri = 1 * 8 + SyslogSeverity(call.verbosity)
          /\ pri \div 8 = 1
          /\ pri \in 0..191

(***************************************************************************)
(* SpecLogger: a Logger and its handlers, driven through debug, info,      *)
(* warning, error and capture_exception.                                   *)
(***************************************************************************)
Hello == << "h", "e", "l", "l", "o" >>
NowText == << "n", "o", "w" >>
Ohai == << "o", "h", "a", "i" >>
Test == << "t", "e", "s", "t" >>

Env ==
    [now |-> << "1", "2", ":", "0", "0" >>,
     frame |-> [fname |-> << "/", "t", "/", "t", "e", "s", "t", "_", "l", "o",
                            "g", "g", "e", "r", "s", ".", "p", "y" >>,
                line |-> 90,
                func |-> << "t", "e", "s", "t", "_", "i", "t" >>],
     pid |-> 4321,
     traceback |-> << "T", "r", "a", "c", "e", "b", "a", "c", "k", ":", NL >>]

\* '{module}: {message}', '{time}: {message}', '{derp} {derp}: {message}'
ModuleTemplate == << F("module"), L(":"), L(" "), F("message") >>
TimeTemplate == << F("time"), L(":"), L(" "), F("message") >>
DerpTemplate ==
    << F("derp"), L(" "), F("derp"), L(":"), L(" "), F("message") >>

Templates == { ModuleTemplate, TimeTemplate, DerpTemplate }

\* Loggers that differ by their template and their newline policy, with a
\* stream handler and a syslog handler.
LoggerConfigs ==
    { ("name" :> Test)
        @@ ("handlers" :> << StreamHandler("verbosity" :> "debug"),
                             SyslogHandler(NoArgs) >>)
        @@ kw :
        kw \in Both(Opt("template", Templates),
                    Opt("ensure_new_line", { FALSE })) }

\* Keyword context of a call: none, a static or a callable value for a
\* standard key, a static or a callable value for a key of the template.
Contexts ==
    { NoArgs, "time" :> S(NowText), "time" :> Fn(S(NowText)),
      "derp" :> S(Ohai), "derp" :> Fn(S(Ohai)) }

InitFrom(configs) ==
    /\ \E kw \in configs :
         /\ logger = Logger(kw)
         /\ handlers = LoggerHandlers(kw)
    /\ call = NoCall
    /\ ncalls = 0
    /\ cmp = NoCmp

InitLogger == InitFrom(LoggerConfigs)

\* One call of a Logger method, with keyword context from `contexts`.
LogFrom(contexts) ==
    /\ ncalls < MaxCalls
    /\ \E method \in Methods, context \in contexts :
         \E result \in { LoggerCall(logger, handlers, method, Hello, context, Env) } :
             /\ handlers' = result.handlers
             /\ call' = [op |-> method,
                         verbosity |-> VerbosityOf(method),
                         message |-> Hello,
                         context |-> context,
                         exc |-> result.exc,
                         entry |-> result.entry,
                         interpolated |-> result.interpolated,
                         invoked |-> result.invoked,
                         before |-> handlers]
    /\ ncalls' = ncalls + 1
    /\ UNCHANGED << logger, cmp >>

Log == LogFrom(Contexts)

NextLogger == Log

SpecLogger == InitLogger /\ [][NextLogger]_vars

Logged == call.op \in Methods

(***************************************************************************)
(* SpecDispatch: Loggers that differ by their handler list, called without *)
(* context.                                                                *)
(***************************************************************************)
\* A handler of a list: a stream handler of any threshold, a file handler,
\* a syslog handler.
ListedHandlers ==
    { StreamHandler("verbosity" :> v) : v \in Verbosity }
    \cup { FileHandler(("verbosity" :> "warning") @@ ("encoding" :> "ascii")),
           SyslogHandler(NoArgs) }

RECURSIVE HandlerLists(_)
HandlerLists(n) ==
    IF n = 0 THEN { << >> }
    ELSE { Append(hs, h) : hs \in HandlerLists(n - 1), h \in ListedHandlers }

\* No handler list, or a list of one to MaxHandlers handlers.
DispatchConfigs ==
    { ("name" :> Test) @@ kw :
        kw \in { NoArgs }
               \cup { "handlers" :> hs :
                        hs \in UNION { HandlerLists(n) : n \in 1..MaxHandlers } } }

InitDispatch == InitFrom(DispatchConfigs)

LogPlain == LogFrom({ NoArgs })

NextDispatch == LogPlain

SpecDispatch == InitDispatch /\ [][NextDispatch]_vars

(***************************************************************************)
(* Properties of a Logger call.                                            *)
(***************************************************************************)
Admits(h) == Value(h.verbosity) <= Value(call.verbosity)

\* The destination unit carries the entry: the text itself on a stream, the
\* encoded text on a file or a socket, the text between the PRI field and
\* the NUL in a syslog payload.
Carries(h, unit, entry) ==
    IF h.cls = "StreamHandler" THEN unit = entry
    ELSE LET text == Decode(h.encoding, unit) IN
         IF h.cls # "SyslogHandler" THEN text = entry
         ELSE /\ Len(text) > Len(entry)
              /\ text[Len(text)] = NUL
              /\ SubSeq(text, Len(text) - Len(entry), Len(text) - 1) = entry

\* Handler i observed exactly one write, of the entry, during the last call.
OneWrite(i) ==
    LET d0 == Destination(call.before[i])
        d1 == Destination(handlers[i])
    IN  Extends(d0, d1) /\ Carries(handlers[i], d1[Len(d1)], call.entry)

NoWrite(i) == Destination(handlers[i]) = Destination(call.before[i])

\* C2: in a Logger call that completes, every handler whose threshold is at
\* most the verbosity of the call observes exactly one write of the entry
\* and every other handler observes none, whatever the other thresholds.
C2_IndependentDispatch ==
    (Logged /\ call.exc = None) =>
      \A i \in 1..Len(handlers) :
        IF Admits(call.before[i]) THEN OneWrite(i) ELSE NoWrite(i)

\* One call was written by the second handler, onto an earlier entry, and
\* dropped by the first.
C2_Witness ==
    /\ Logged /\ call.exc = None
    /\ Len(handlers) = 2
    /\ Len(Destination(call.before[2])) = 1
    /\ ~Admits(call.before[1]) /\ NoWrite(1)
    /\ Admits(call.before[2]) /\ OneWrite(2)

\* The keys of the merged context of the last call.
MergedKeys == BASE_TEMPLATE_KEYS \cup DOMAIN call.context

\* C3: when the template has a placeholder that the merged context lacks,
\* the call fails with the formatting error and no handler receives a write.
C3_MissingKeyFails ==
    (Logged /\ ~(Fields(logger.template) \subseteq MergedKeys)) =>
      /\ call.exc = "KeyError"
      /\ \A i \in 1..Len(handlers) : NoWrite(i)

\* A call on the '{derp} {derp}: {message}' template without a derp value
\* failed although a handler admits its verbosity.
C3_Witness ==
    /\ Logged
    /\ logger.template = DerpTemplate
    /\ "derp" \notin DOMAIN call.context
    /\ call.exc = "KeyError"
    /\ \E i \in 1..Len(handlers) : Admits(call.before[i])

\* The context with every callable replaced by the value it returns.
Resolved(context) ==
    [key \in DOMAIN context |->
       IF callable(context[key]) THEN context[key].returns ELSE context[key]]

CallableKeys == { key \in DOMAIN call.context : callable(call.context[key]) }

\* C5: a callable context value is invoked at most once in a call, and the
\* text interpolated is the one that the returned value gives.
C5_LazyOnce ==
    (Logged /\ CallableKeys # {}) =>
      /\ \A key \in CallableKeys : call.invoked[key] <= 1
      /\ call.exc = None =>
           /\ \A key \in CallableKeys : call.invoked[key] = 1
           /\ call.interpolated =
                LoggerCall(logger, call.before, call.op, call.message,
                           Resolved(call.context), Env).interpolated

\* A callable whose key occurs twice in the template was invoked once in a
\* call dispatched to two handlers.
C5_Witness ==
    /\ Logged /\ call.exc = None
    /\ logger.template = DerpTemplate
    /\ call.context = "derp" :> Fn(S(Ohai))
    /\ call.invoked["derp"] = 1
    /\ OneWrite(1) /\ OneWrite(2)
    /\ call.interpolated = Ohai \o << " " >> \o Ohai \o << ":", " " >> \o Hello

Received1 == Destination(handlers[1])[Len(Destination(handlers[1]))]

\* C7: a Logger built without a newline policy and given a custom template
\* hands its handlers the interpolated template with no character added:
\* 'test_loggers: hello' for '{module}: {message}', 'now: hello' for
\* '{time}: {message}' with time='now'.
C7_NothingAdded ==
    (/\ Logged /\ call.exc = None
     /\ "ensure_new_line" \notin logger.passed
     /\ logger.template \in Templates
     /\ Admits(call.before[1]) /\ call.before[1].cls = "StreamHandler") =>
      /\ Received1 = call.interpolated
      /\ (logger.template = ModuleTemplate /\ call.op # "capture_exception") =>
           Received1 = << "t", "e", "s", "t", "_", "l", "o", "g", "g", "e", "r",
                          "s", ":", " " >> \o Hello
      /\ (/\ logger.template = TimeTemplate
          /\ call.op # "capture_exception"
          /\ call.context = "time" :> S(NowText)) =>
           Received1 = NowText \o << ":", " " >> \o Hello

(***************************************************************************)
(* SpecContext: a Logger whose template shows every standard key, called   *)
(* with a caller-supplied value for one standard key.                      *)
(***************************************************************************)
KeyOrder ==
    << "name", "time", "verbosity", "message", "source", "function", "line",
       "module", "pid" >>

\* '{name}|{time}|{verbosity}|{message}|{source}|{function}|{line}|{module}|{pid}'
RECURSIVE Joined(_)
Joined(keys) ==
    IF Len(keys) = 1 THEN << F(keys[1]) >>
    ELSE << F(Head(keys)), L("|") >> \o Joined(Tail(keys))

AllKeysTemplate == Joined(KeyOrder)

X == << "x" >>

StandardContexts == { key :> S(X) : key \in BASE_TEMPLATE_KEYS }

ContextConfigs ==
    { ("name" :> Test)
        @@ ("handlers" :> << StreamHandler("verbosity" :> "debug") >>)
        @@ ("template" :> AllKeysTemplate) @@ kw :
        kw \in Opt("ensure_new_line", { FALSE }) }

InitContext == InitFrom(ContextConfigs)

LogStandard == LogFrom(StandardContexts)

NextContext == LogStandard

SpecContext == InitContext /\ [][NextContext]_vars

\* The texts between the '|' separators.
RECURSIVE Segments(_)
Segments(text) ==
    IF \E i \in 1..Len(text) : text[i] = "|"
    THEN LET cut == CHOOSE i \in 1..Len(text) :
                      text[i] = "|" /\ \A j \in 1..(i - 1) : text[j] # "|"
         IN  << SubSeq(text, 1, cut - 1) >>
               \o Segments(SubSeq(text, cut + 1, Len(text)))
    ELSE << text >>

KeyIndex(key) == CHOOSE i \in 1..Len(KeyOrder) : KeyOrder[i] = key

\* C4: for every standard key k, debug/info/warning/error(msg, k=x)
\* succeeds and renders {k} as x.
C4_StandardKeyOverride ==
    (Logged /\ call.op # "capture_exception") =>
      \A key \in DOMAIN call.context :
        /\ call.exc = None
        /\ Segments(call.interpolated)[KeyIndex(key)] = Rendered(call.context[key])

(***************************************************************************)
(* SpecOrder: the comparison operators of Verbosity applied to any three   *)
(* members.                                                                *)
(***************************************************************************)
InitOrder ==
    /\ handlers = << >>
    /\ logger = NoLogger
    /\ call = NoCall
    /\ ncalls = 0
    /\ cmp = NoCmp

Compare ==
    /\ \E a \in Verbosity, b \in Verbosity, c \in Verbosity :
         cmp' = [a |-> a, b |-> b, c |-> c,
                 lt |-> lt(a, b), le |-> le(a, b), eq |-> eq(a, b),
                 ge |-> ge(a, b), gt |-> gt(a, b),
                 lt_bc |-> lt(b, c), lt_ac |-> lt(a, c)]
    /\ UNCHANGED << handlers, logger, call, ncalls >>

NextOrder == Compare

SpecOrder == InitOrder /\ [][NextOrder]_vars

\* The declared order of the severities, lowest first.
Declared == << "debug", "info", "warning", "error", "exception" >>

Rank(v) == (CHOOSE i \in 1..Len(Declared) : Declared[i] = v) - 1

Compared == cmp.a # None

Count(flags) == Cardinality({ i \in 1..Len(flags) : flags[i] })

\* C10: the comparison operators agree with the declared rank and form a
\* total order: a < b iff rank(a) < rank(b); exactly one of <, ==, > holds;
\* a <= b iff not a > b; a == b iff a and b are the same member; < is
\* transitive.
C10_TotalOrder ==
    Compared =>
      /\ cmp.lt <=> Rank(cmp.a) < Rank(cmp.b)
      /\ Count(<< cmp.lt, cmp.eq, cmp.gt >>) = 1
      /\ cmp.le <=> ~cmp.gt
      /\ cmp.ge <=> ~cmp.lt
      /\ cmp.eq <=> cmp.a = cmp.b
      /\ (cmp.lt /\ cmp.lt_bc) => cmp.lt_ac

\* Three members in strictly ascending order were compared.
C10_Witness ==
    /\ Compared
    /\ cmp.a = "warning" /\ cmp.b = "error" /\ cmp.c = "exception"
    /\ cmp.lt /\ cmp.lt_bc /\ cmp.lt_ac
    /\ ~cmp.eq /\ ~cmp.gt /\ cmp.le /\ ~cmp.ge

(***************************************************************************)
(* SpecDefaults: one handler of any class constructed without a threshold, *)
(* driven through write_entry.                                             *)
(***************************************************************************)
DefaultHandlers ==
    { StreamHandler(NoArgs), StdOutHandler(NoArgs), StdErrHandler(NoArgs),
      FileHandler(NoArgs), SyslogHandler(NoArgs),
      SocketHandler("host" :> DevLog),
      UnixSocketHandler_init("node" :> DevLog, Reachable).handler,
      TcpHandler_init(("host" :> IPv4Literal) @@ ("port" :> PyInt(514)),
                      Reachable).handler,
      UdpHandler_init(("host" :> IPv4Literal) @@ ("port" :> PyInt(514)),
                      Reachable).handler }

InitDefaults ==
    /\ handlers \in { << h >> : h \in DefaultHandlers }
    /\ logger = NoLogger
    /\ call = NoCall
    /\ ncalls = 0
    /\ cmp = NoCmp

NextDefaults == WriteEntry

SpecDefaults == InitDefaults /\ [][NextDefaults]_vars

IsStdErr(h) == h.cls = "StreamHandler" /\ h.stream.name = "stderr"

\* C11: a handler constructed without a threshold writes an entry if and
\* only if its verbosity is at least info, except the handler of stderr,
\* which writes it if and only if its verbosity is at least warning.
C11_DefaultThreshold ==
    Wrote =>
      LET default == IF IsStdErr(Before) THEN "warning" ELSE "info"
      IN  (Destination(After) # Destination(Before))
            <=> Value(call.verbosity) >= Value(default)

(***************************************************************************)
(* Visibility of an admitted entry.                                        *)
(***************************************************************************)
\* What an observer of the destination sees: the text the stream object
\* passed on, the bytes in the file, the payloads sent on the socket.
Visible(h) ==
    CASE h.cls = "StreamHandler" -> h.stream.out
      [] h.cls = "FileHandler" -> h.fh.disk
      [] h.cls \in SocketHandlers -> h.socket.sent

\* What the resource still holds back.
Buffered(h) ==
    CASE h.cls = "StreamHandler" -> h.stream.buffer
      [] h.cls = "FileHandler" -> h.fh.buffer
      [] h.cls \in SocketHandlers -> << >>

Admitted == Wrote /\ Value(call.verbosity) >= Value(Before.verbosity)

\* C12: when write_entry returns after admitting an entry (with some text),
\* the destination shows one more unit and nothing is left in a buffer.
C12_VisibleOnReturn ==
    (Admitted /\ call.entry # << >>) =>
      /\ Buffered(After) = << >>
      /\ Len(Visible(After)) = Len(Visible(Before)) + 1

(***************************************************************************)
(* SpecFailure: a Logger with two handlers whose resources may start to    *)
(* fail between calls (the stream is closed, the disk fills up, the peer   *)
(* of the socket goes away).                                               *)
(***************************************************************************)
FailureHandlers ==
    { StreamHandler("verbosity" :> "warning"), FileHandler(NoArgs),
      SyslogHandler("verbosity" :> "error") }

FailureConfigs ==
    { ("name" :> Test) @@ ("handlers" :> << h1, h2 >>) :
        h1 \in FailureHandlers, h2 \in FailureHandlers }

InitFailure == InitFrom(FailureConfigs)

\* The resource of a handler and the operations it can fail.
Resource(h) ==
    CASE h.cls = "StreamHandler" -> h.stream
      [] h.cls = "FileHandler" -> h.fh
      [] h.cls \in SocketHandlers -> h.socket

FaultsOf(h) ==
    CASE h.cls = "StreamHandler" -> { "write" }
      [] h.cls = "FileHandler" -> { "write", "flush" }
      [] h.cls \in SocketHandlers -> { "sendall" }

WithFault(h, fault) ==
    CASE h.cls = "StreamHandler" -> [h EXCEPT !.stream.fault = fault]
      [] h.cls = "FileHandler" -> [h EXCEPT !.fh.fault = fault]
      [] h.cls \in SocketHandlers ->
           [h EXCEPT !.socket.fault = fault]

\* The environment breaks the resource of one handler.
Fault ==
    /\ \E i \in 1..Len(handlers) :
         /\ Resource(handlers[i]).fault = None
         /\ \E fault \in FaultsOf(handlers[i]) :
              handlers' = [handlers EXCEPT ![i] = WithFault(@, fault)]
    /\ UNCHANGED << logger, call, ncalls, cmp >>

NextFailure == LogPlain \/ Fault

SpecFailure == InitFailure /\ [][NextFailure]_vars

Faulty(h) == Resource(h).fault # None

Attempts(i) == Resource(handlers[i]).calls - Resource(call.before[i]).calls

\* C13: in a Logger call whose entry is admitted by a handler with a failing
\* resource, the failure is raised to the caller of that call, and no
\* handler's write is attempted more than once in one call.
C13_FailureReachesCaller ==
    Logged =>
      /\ \A i \in 1..Len(handlers) : Attempts(i) \in { 0, 1 }
      /\ (\E i \in 1..Len(handlers) :
            Admits(call.before[i]) /\ Faulty(call.before[i]))
           => call.exc \in { "ValueError", "OSError" }
      /\ call.exc = None =>
           \A i \in 1..Len(handlers) :
             Admits(call.before[i]) => Attempts(i) = 1

\* The second handler failed in a call that the first handler wrote.
C13_Witness ==
    /\ Logged
    /\ call.exc = "OSError"
    /\ ~Faulty(call.before[1]) /\ OneWrite(1)
    /\ Faulty(call.before[2]) /\ Attempts(2) = 1 /\ NoWrite(2)

(***************************************************************************)
(* SpecLifecycle: handlers are constructed (in any state of the network    *)
(* and of the file system), written to and discarded.  `handlers` holds    *)
(* the live handlers.  Discarding a handler, or failing in its             *)
(* constructor, leaves the object without reference, and its __del__ runs. *)
(***************************************************************************)
Nets ==
    { [listening |-> l, nodes |-> { DevLog }] : l \in SUBSET { AF_INET, AF_INET6 } }

Old == << 111, 108, 100, 10 >>

\* A new file, no directory, a file that holds an earlier line.
Places ==
    { NewPath, [dir |-> FALSE, content |-> << >>],
      [dir |-> TRUE, content |-> << Old >>] }

Hosts == { Localhost, IPv4Literal, IPv6Literal }
Ports == { PyInt(0), PyInt(514) }

HostPort == { ("host" :> h) @@ ("port" :> p) : h \in Hosts, p \in Ports }

\* Arguments of the generic SocketHandler: a UNIX node with or without
\* family and type, an IP endpoint with family and type, nothing.
GenericArgs ==
    { ("host" :> h) @@ kw :
        h \in { DevLog, NoNode },
        kw \in Both(Opt("family", { AF_UNIX }),
                    Opt("type", { SOCK_DGRAM, SOCK_STREAM })) }
    \cup { ("family" :> f) @@ ("type" :> t) @@ kw :
             f \in { AF_INET, AF_INET6 }, t \in { SOCK_DGRAM, SOCK_STREAM },
             kw \in HostPort }
    \cup { NoArgs }

FileConstructions(fs) ==
    { FileHandler_init(kw, fs) : kw \in Opt("mode", { "w" }) }

SocketConstructions(net) ==
    { SocketHandler_init([cls |-> "SocketHandler", kwargs |-> kw], kw, net) :
             kw \in GenericArgs }
    \cup { TcpHandler_init(kw, net) : kw \in HostPort }
    \cup { TcpIPv6Handler_init(kw, net) : kw \in HostPort }
    \cup { UdpHandler_init(kw, net) : kw \in HostPort }
    \cup { UdpIPv6Handler_init(kw, net) : kw \in HostPort }
    \cup { UnixSocketHandler_init("node" :> n, net) : n \in { DevLog, NoNode } }
    \cup { SyslogHandler_init(kw, net) : kw \in Opt("port", Ports) }

\* Every outcome of a constructor call, over the states of the file system
\* and of the network.
Constructions ==
    UNION { FileConstructions(fs) : fs \in Places }
    \cup UNION { SocketConstructions(net) : net \in Nets }
    \cup { Constructed(StreamHandler(NoArgs)) }

\* The finaliser of an object without reference.
del(h) ==
    CASE h.cls = "FileHandler" -> FileHandler_del(h)
      [] h.cls \in SocketHandlers -> SocketHandler_del(h)
      [] OTHER -> Returned(h)

\* The resources of an object that are still open.
OpenResources(h) ==
    CASE h.cls = "FileHandler" /\ "fh" \in DOMAIN h ->
           IF h.fh.closed THEN << >> ELSE << h.fh >>
      [] h.cls \in SocketHandlers /\ "socket" \in DOMAIN h ->
           IF h.socket.closed THEN << >> ELSE << h.socket >>
      [] OTHER -> << >>

InitLifecycle ==
    /\ handlers = << >>
    /\ logger = NoLogger
    /\ call = NoCall
    /\ ncalls = 0
    /\ cmp = NoCmp

\* handler = Class(...): when the constructor raises, the object is
\* finalised and what its constructor opened has no owner.
Construct ==
    /\ Len(handlers) < MaxLive
    /\ \E made \in Constructions :
         /\ handlers' = IF made.exc = None
                         THEN Append(handlers, made.handler) ELSE handlers
         /\ call' = [op |-> "__init__", made |-> made,
                     exc |-> made.exc, unowned |-> made.unowned,
                     del_exc |-> IF made.exc = None THEN None
                                 ELSE del(made.handler).exc]
    /\ UNCHANGED << logger, ncalls, cmp >>

Remove(seq, i) == SubSeq(seq, 1, i - 1) \o SubSeq(seq, i + 1, Len(seq))

\* del handler
Discard ==
    /\ \E i \in 1..Len(handlers) :
         \E result \in { del(handlers[i]) } :
           /\ handlers' = Remove(handlers, i)
           /\ call' = [op |-> "__del__", exc |-> None,
                       unowned |-> OpenResources(result.handler),
                       del_exc |-> result.exc]
    /\ UNCHANGED << logger, ncalls, cmp >>

\* handlers[i].write_entry(entry, verbosity)
Write ==
    /\ \E i \in 1..Len(handlers), verbosity \in { "debug", "error" } :
         /\ Len(Destination(handlers[i])) < MaxWrites
         /\ \E result \in { write_entry(handlers[i], << KO, NL >>, verbosity) } :
              /\ handlers' = [handlers EXCEPT ![i] = result.handler]
              /\ call' = [op |-> "write", index |-> i, verbosity |-> verbosity,
                          exc |-> result.exc, before |-> handlers]
    /\ UNCHANGED << logger, ncalls, cmp >>

NextLifecycle == Construct \/ Write \/ Discard

SpecLifecycle == InitLifecycle /\ [][NextLifecycle]_vars

\* C14: after a constructor or a discard, no resource is open without a
\* live owning handler, and the release step did not fault.
C14_ReleasedOnEveryPath ==
    call.op \in { "__init__", "__del__" } =>
      /\ call.unowned = << >>
      /\ call.del_exc = None

(***************************************************************************)
(* Properties of SocketHandler construction.                               *)
(***************************************************************************)
Object == call.made.handler

SocketBuilt ==
    /\ call.op = "__init__"
    /\ Object.cls \in SocketHandlers

\* The family and type a construction names explicitly: those its class
\* passes to SocketHandler.__init__, or those of the caller's arguments.
Explicit(h) ==
    CASE h.cls = "TcpHandler" -> << AF_INET, SOCK_STREAM >>
      [] h.cls = "TcpIPv6Handler" -> << AF_INET6, SOCK_STREAM >>
      [] h.cls = "UdpHandler" -> << AF_INET, SOCK_DGRAM >>
      [] h.cls = "UdpIPv6Handler" -> << AF_INET6, SOCK_DGRAM >>
      [] h.cls = "UnixSocketHandler" -> << AF_UNIX, SOCK_DGRAM >>
      [] h.cls = "SyslogHandler" -> << AF_INET, SOCK_DGRAM >>
      [] h.cls = "SocketHandler" ->
           << Arg(h.kwargs, "family", None), Arg(h.kwargs, "type", None) >>

\* C19: a SocketHandler constructed with an explicit family and type holds
\* a socket of that family and type, and records that family and type.
C19_FamilyAndType ==
    (SocketBuilt /\ call.exc = None
       /\ Explicit(Object)[1] # None /\ Explicit(Object)[2] # None) =>
      /\ Object.socket.family = Explicit(Object)[1]
      /\ Object.socket.type = Explicit(Object)[2]
      /\ Object.family = Object.socket.family
      /\ Object.type = Object.socket.type

\* The construction took the branch that creates the socket itself: no
\* port, or the datagram type.
NonStream(h) == IsNone(h.port) \/ h.type = SOCK_DGRAM

\* C20: in that branch the address given to connect is (host, port)
\* whenever a port was given, 0 included, and the bare host otherwise.
C20_AddressOfConnect ==
    (SocketBuilt /\ NonStream(Object)) =>
      call.made.address = IF IsNone(Object.port) THEN Bare(Object.host)
                          ELSE Pair(Object.host, Object.port)

(***************************************************************************)
(* SpecThreads: two threads log through one shared Logger.  Nothing in     *)
(* _log or in write_entry takes a lock, so a thread can be preempted       *)
(* between any two calls it makes on a resource: between fh.write and      *)
(* fh.flush, and between two sends of the loop inside sendall.  `call`     *)
(* holds the frame of each thread and the trace of the units that reached  *)
(* the resources, each with the call it belongs to.                        *)
(***************************************************************************)
Threads == { 1, 2 }

Messages == << Hello, Ohai >>

Idle == [pc |-> "idle"]

ThreadHandlers ==
    { << FileHandler("verbosity" :> "debug") >>,
      << TcpHandler_init(("host" :> IPv4Literal) @@ ("port" :> PyInt(514))
                           @@ ("verbosity" :> "error"),
                         Reachable).handler >>,
      << FileHandler("verbosity" :> "debug"),
         TcpHandler_init(("host" :> IPv4Literal) @@ ("port" :> PyInt(514))
                           @@ ("verbosity" :> "error"),
                         Reachable).handler >> }

InitThreads ==
    /\ logger = Logger(("name" :> Test) @@ ("template" :> << F("message") >>))
    /\ handlers \in ThreadHandlers
    /\ call = [op |-> "threads", frames |-> [t \in Threads |-> Idle],
               trace |-> << >>]
    /\ ncalls = 0
    /\ cmp = NoCmp

Frame(t) == call.frames[t]

\* A thread enters debug or error: the entry is formatted.
ThreadCall(t) ==
    /\ Frame(t).pc = "idle"
    /\ ncalls < MaxCalls
    /\ \E method \in { "debug", "error" } :
         \E result \in { LoggerCall(logger, << >>, method, Messages[t],
                                    NoArgs, Env) } :
           call' = [call EXCEPT !.frames[t] =
                      [pc |-> "loop", owner |-> << t, ncalls + 1 >>, i |-> 1,
                       verbosity |-> VerbosityOf(method),
                       entry |-> result.entry]]
    /\ ncalls' = ncalls + 1
    /\ UNCHANGED << handlers, logger, cmp >>

\* for handler in self.handlers: the threshold test of write_entry.
ThreadLoop(t) ==
    /\ Frame(t).pc = "loop"
    /\ LET f == Frame(t) IN
       call' = [call EXCEPT !.frames[t] =
                  IF f.i > Len(handlers) THEN Idle
                  ELSE LET h == handlers[f.i] IN
                       IF ~le(h.verbosity, f.verbosity)
                       THEN [f EXCEPT !.i = @ + 1]
                       ELSE IF h.cls = "FileHandler"
                       THEN [f EXCEPT !.pc = "write"]
                       ELSE [pc |-> "send",
                             rest |-> Encode(h.encoding, f.entry)] @@ f]
    /\ UNCHANGED << handlers, logger, ncalls, cmp >>

Unit(f, op) == [owner |-> f.owner, handler |-> f.i, op |-> op]

\* self.fh.write(...)
ThreadWrite(t) ==
    /\ Frame(t).pc = "write"
    /\ LET f == Frame(t) IN
       /\ handlers' = [handlers EXCEPT ![f.i] = fh_write(@, f.entry).handler]
       /\ call' = [call EXCEPT !.frames[t] = [f EXCEPT !.pc = "flush"],
                               !.trace = Append(@, Unit(f, "write"))]
    /\ UNCHANGED << logger, ncalls, cmp >>

\* self.fh.flush()
ThreadFlush(t) ==
    /\ Frame(t).pc = "flush"
    /\ LET f == Frame(t) IN
       /\ handlers' = [handlers EXCEPT ![f.i] = fh_flush(@).handler]
       /\ call' = [call EXCEPT !.frames[t] =
                                 [f EXCEPT !.pc = "loop", !.i = @ + 1],
                               !.trace = Append(@, Unit(f, "flush"))]
    /\ UNCHANGED << logger, ncalls, cmp >>

\* One send of sendall: the kernel takes all that is left, or only the
\* MaxChunk bytes it has room for.
ThreadSend(t) ==
    /\ Frame(t).pc = "send"
    /\ LET f == Frame(t) IN
       \E n \in { Len(f.rest), IF Len(f.rest) < MaxChunk THEN Len(f.rest)
                                ELSE MaxChunk } :
         /\ handlers' = [handlers EXCEPT ![f.i] =
                           send(@, SubSeq(f.rest, 1, n))]
         /\ call' = [call EXCEPT
                       !.frames[t] =
                          IF n = Len(f.rest)
                          THEN [pc |-> "loop", owner |-> f.owner,
                                i |-> f.i + 1, verbosity |-> f.verbosity,
                                entry |-> f.entry]
                          ELSE [f EXCEPT !.rest = SubSeq(@, n + 1, Len(@))],
                       !.trace = Append(@, Unit(f, "send"))]
    /\ UNCHANGED << logger, ncalls, cmp >>

NextThreads ==
    \E t \in Threads :
      \/ ThreadCall(t)
      \/ ThreadLoop(t)
      \/ ThreadWrite(t)
      \/ ThreadFlush(t)
      \/ ThreadSend(t)

SpecThreads == InitThreads /\ [][NextThreads]_vars

\* C15: on each handler's resource the units of one entry are contiguous:
\* no unit of another call falls between two units of the same call.
C15_NoInterleaving ==
    LET trace == call.trace IN
    \A a \in 1..Len(trace), b \in 1..Len(trace), c \in 1..Len(trace) :
      (a < b /\ b < c
         /\ trace[a].handler = trace[c].handler
         /\ trace[b].handler = trace[a].handler
         /\ trace[a].owner = trace[c].owner)
        => trace[b].owner = trace[a].owner

(***************************************************************************)
(* SpecFile: one FileHandler, opened on a new file or on a file that holds *)
(* an earlier line, with mode 'a' (the default) or 'w', and written to.    *)
(* `call` holds the content of the file once opened and the history of the *)
(* write_entry calls.                                                      *)
(***************************************************************************)
FileArgs ==
    Both(Both(Opt("mode", { "w" }), Opt("encoding", { "ascii" })),
         Opt("verbosity", { "warning" }))

InitFile ==
    /\ \E kw \in FileArgs, fs \in { NewPath, [dir |-> TRUE, content |-> << Old >>] } :
         /\ handlers = << FileHandler_init(kw, fs).handler >>
         /\ call = [op |-> "file", opened |-> handlers[1].fh.disk,
                    history |-> << >>]
    /\ logger = NoLogger
    /\ ncalls = 0
    /\ cmp = NoCmp

FileWrite ==
    /\ Len(call.history) < MaxWrites
    /\ \E entry \in Entries, verbosity \in { "debug", "warning", "exception" } :
         \E result \in { write_entry(handlers[1], entry, verbosity) } :
           /\ handlers' = << result.handler >>
           /\ call' = [call EXCEPT !.history =
                         Append(@, [entry |-> entry, verbosity |-> verbosity,
                                    threshold |-> handlers[1].verbosity,
                                    exc |-> result.exc])]
    /\ UNCHANGED << logger, ncalls, cmp >>

NextFile == FileWrite

SpecFile == InitFile /\ [][NextFile]_vars

RECURSIVE Flatten(_)
Flatten(units) ==
    IF units = << >> THEN << >> ELSE Head(units) \o Flatten(Tail(units))

\* The entries of the calls that the threshold admitted and that returned,
\* encoded, in call order.
RECURSIVE Accepted(_, _)
Accepted(encoding, history) ==
    IF history = << >> THEN << >>
    ELSE LET c == Head(history)
             rest == Accepted(encoding, Tail(history))
         IN  IF Value(c.verbosity) >= Value(c.threshold) /\ c.exc = None
             THEN Encode(encoding, c.entry) \o rest
             ELSE rest

OnFile == call.op = "file"

\* C16 as stated: the bytes on disk are exactly the admitted entries,
\* encoded, in call order.
C16_DiskIsTheEntries ==
    (OnFile /\ call.history # << >>) =>
      Flatten(handlers[1].fh.disk) = Accepted(handlers[1].encoding, call.history)

\* C16: the bytes on disk are the bytes the file held once opened (what it
\* held before under mode 'a', nothing under mode 'w' or for a new file)
\* followed by the admitted entries, encoded, in call order; nothing is
\* left in the buffer, and a call that raises adds nothing.
C16_DiskIsOpenedPlusEntries ==
    OnFile =>
      /\ Flatten(handlers[1].fh.disk)
           = Flatten(call.opened)
               \o Accepted(handlers[1].encoding, call.history)
      /\ handlers[1].fh.buffer = << >>
      /\ handlers[1].fh.mode = "w" => call.opened = << >>

\* Two entries, the first of them non-ASCII, were appended to a file that
\* held an earlier line.
C16_Witness ==
    /\ OnFile
    /\ call.opened = << Old >>
    /\ Len(call.history) = 2
    /\ \A i \in 1..2 : call.history[i].exc = None
    /\ call.history[1].entry = << KO, NL >>
    /\ call.history[2].entry = << "h", "i" >>
    /\ Len(handlers[1].fh.disk) = 3

(***************************************************************************)
(* capture_exception.                                                      *)
(***************************************************************************)
Captured == Logged /\ call.op = "capture_exception"

\* C17: capture_exception renders the verbosity as EXCEPTION and the
\* traceback of the current exception as the message (here with the
\* default template), and every handler, whatever its threshold, writes
\* the entry once.
C17_CaptureException ==
    Captured =>
      /\ call.exc = None
      /\ call.interpolated =
           Env.now \o << " ", "E", "X", "C", "E", "P", "T", "I", "O", "N", " " >>
             \o logger.name \o << ":", " " >> \o Env.traceback
      /\ \A i \in 1..Len(handlers) : OneWrite(i)

\* A handler with threshold exception and a file handler both wrote the
\* traceback.
C17_Witness ==
    /\ Captured
    /\ Len(handlers) = 2
    /\ handlers[1].verbosity = "exception" /\ OneWrite(1)
    /\ handlers[2].cls = "FileHandler" /\ OneWrite(2)
    /\ SubSeq(call.entry, Len(call.entry) - Len(Env.traceback) + 1,
              Len(call.entry)) = Env.traceback

(***************************************************************************)
(* SpecLazy: Loggers whose handlers drop the lower verbosities, called     *)
(* with a callable context value.                                          *)
(***************************************************************************)
LazyConfigs ==
    { ("name" :> Test) @@ ("template" :> DerpTemplate) @@ ("handlers" :> hs) :
        hs \in { << StreamHandler("verbosity" :> "error") >>,
                 << StreamHandler("verbosity" :> "debug") >>,
                 << StreamHandler("verbosity" :> "warning"),
                    FileHandler("verbosity" :> "exception") >> } }

LazyContexts ==
    { "derp" :> Fn(S(Ohai)), "derp" :> S(Ohai),
      ("derp" :> Fn(S(Ohai))) @@ ("time" :> Fn(S(NowText))) }

InitLazy == InitFrom(LazyConfigs)

LogLazy == LogFrom(LazyContexts)

NextLazy == LogLazy

SpecLazy == InitLazy /\ [][NextLazy]_vars

\* C18: in a call that no handler admits, no context callable is invoked.
C18_LazyOnlyIfLogged ==
    (Logged /\ \A i \in 1..Len(handlers) : ~Admits(call.before[i])) =>
      \A key \in DOMAIN call.invoked : call.invoked[key] = 0

(***************************************************************************)
(* SpecExplicit: one handler of any class constructed with an explicit     *)
(* threshold, any member of either Verbosity class, driven through         *)
(* write_entry.  StdErrHandler(DEBUG) is the handler that                  *)
(* lager/__init__.py builds for the module-level logger.                   *)
(***************************************************************************)
WithThreshold(T) ==
    LET kw == "verbosity" :> T
    IN  { StreamHandler(kw), StdOutHandler(kw), StdErrHandler(kw),
          FileHandler(kw), SyslogHandler(kw),
          SocketHandler(("host" :> DevLog) @@ kw) }

ExplicitHandlers == UNION { WithThreshold(T) : T \in Shipped }

InitExplicit ==
    /\ handlers \in { << h >> : h \in ExplicitHandlers }
    /\ logger = NoLogger
    /\ call = NoCall
    /\ ncalls = 0
    /\ cmp = NoCmp

NextExplicit == WriteEntry

SpecExplicit == InitExplicit /\ [][NextExplicit]_vars

\* The threshold passed to the constructor of the handler.
Passed(h) == h.kwargs["verbosity"]

\* C21: a handler constructed with an explicit threshold T, any member of
\* either Verbosity class (debug, rank 0, included), has a threshold equal
\* to T and writes an entry if and only if its verbosity is at least T; so
\* the handler built as StdErrHandler(DEBUG) writes debug entries.
C21_ExplicitThreshold ==
    Wrote =>
      /\ eq(Before.verbosity, Passed(Before))
      /\ (Destination(After) # Destination(Before))
            <=> Value(call.verbosity) >= Value(Passed(Before))

(***************************************************************************)
(* SpecAbort: a Logger with three handlers, stream handlers that admit     *)
(* every entry and file handlers that admit warnings, whose resources may  *)
(* start to fail between calls.                                            *)
(***************************************************************************)
AbortHandlers ==
    { StreamHandler("verbosity" :> "debug"),
      FileHandler("verbosity" :> "warning") }

AbortConfigs ==
    { ("name" :> Test) @@ ("handlers" :> << h1, h2, h3 >>) :
        h1 \in AbortHandlers, h2 \in AbortHandlers, h3 \in AbortHandlers }

InitAbort == InitFrom(AbortConfigs)

NextAbort == LogPlain \/ Fault

SpecAbort == InitAbort /\ [][NextAbort]_vars

\* The call failed in a handler.
HandlerFailed == Logged /\ call.exc \in { "ValueError", "OSError" }

\* The last call was aborted at handler i: its write was attempted and
\* failed, every handler before it that admits the entry holds exactly one
\* write of it, and no handler after it was invoked.
AbortedAt(i) ==
    /\ Admits(call.before[i]) /\ Faulty(call.before[i])
    /\ Attempts(i) = 1
    /\ \A j \in 1..(i - 1) :
         IF Admits(call.before[j])
         THEN Attempts(j) = 1 /\ OneWrite(j)
         ELSE Attempts(j) = 0 /\ NoWrite(j)
    /\ \A j \in (i + 1)..Len(handlers) : Attempts(j) = 0 /\ NoWrite(j)

\* C22: a Logger call that fails in a handler was aborted at one position i
\* of the handler list: the handlers before i were invoked and keep the
\* entry they wrote, and the handlers after i were not invoked, whether or
\* not their thresholds admit the entry.
C22_AbortAtFailure ==
    HandlerFailed => \E i \in 1..Len(handlers) : AbortedAt(i)

\* The second of three handlers failed: the first holds the entry, and the
\* third, which admits the entry and whose resource works, was not invoked.
C22_Witness ==
    /\ HandlerFailed
    /\ Len(handlers) = 3
    /\ AbortedAt(2)
    /\ OneWrite(1)
    /\ Admits(call.before[3]) /\ ~Faulty(call.before[3])
    /\ NoWrite(3)
====
